---------------------------- MODULE Spec2Model ----------------------------
(***************************************************************************)
(* The Mergington High School activities API (src/src/app.py): an          *)
(* in-memory registry of activities and three request handlers,            *)
(* get_activities, signup_for_activity and unregister_from_activity.       *)
(*                                                                         *)
(* Spec     runs every handler as one atomic step (sequential requests)    *)
(*          and keeps a log of the last two calls.                         *)
(* SpecFill does the same with clients that fill one activity beyond its   *)
(*          max_participants.                                              *)
(* SpecConc runs two requests on two worker threads, one source line of    *)
(*          a handler per step, as the thread pool of the server does.     *)
(***************************************************************************)
EXTENDS Naturals, Sequences, FiniteSets

VARIABLES
    activities,   \* the module-level dict of app.py, activity name -> activity
    last,         \* Spec: the last call: request, response, registry before it
    prev,         \* Spec: the call before the last one
    pc,           \* SpecConc: thread -> the place of its handler it is at
    req,          \* SpecConc: thread -> the request it serves
    resp          \* SpecConc: thread -> the response it has returned

vars == <<activities, last, prev, pc, req, resp>>

-----------------------------------------------------------------------------
(* Bounds of the request streams.                                           *)

\* How many of the emails of NewEmailPool the clients use on FreeActivity.
NumNew == 2

\* How many emails of NewEmailPool the clients sign up to FillActivity.
NumFill == 9

\* Emails that are in no seed roster (the ones the tests use come first).
NewEmailPool ==
    << "test@mergington.edu", "newstudent@mergington.edu",
       "workflow@mergington.edu", "multisport@mergington.edu",
       "notregistered@mergington.edu", "n6@mergington.edu",
       "n7@mergington.edu", "n8@mergington.edu", "n9@mergington.edu",
       "n10@mergington.edu", "n11@mergington.edu", "n12@mergington.edu" >>

\* The activity the clients address with every email of FreeEmails, in any order.
FreeActivity == "Chess Club"

\* The activity the clients fill beyond its capacity (the smallest of the seed).
FillActivity == "Math Olympiad"

\* A name that is no key of the registry (tests/test_app.py).
MissingActivity == "Nonexistent Activity"

FreeEmails ==
    {"michael@mergington.edu", "daniel@mergington.edu"}
        \cup {NewEmailPool[i] : i \in 1..NumNew}

-----------------------------------------------------------------------------
(* Python's list operations, on sequences.                                  *)

\* `email in participants`
ListContains(participants, email) ==
    \E i \in 1..Len(participants) : participants[i] = email

\* Variant: insert(0, email) in place of append.
ListAppend_Front(participants, email) == <<email>> \o participants

\* `participants.append(email)`
ListAppend(participants, email) == participants \o <<email>>

\* The index of the first occurrence of email (the list contains it).
FirstIndex(participants, email) ==
    CHOOSE i \in 1..Len(participants) :
        /\ participants[i] = email
        /\ \A j \in 1..(i - 1) : participants[j] # email

\* Variant: pop() in place of remove(email).
ListRemove_Last(participants, email) ==
    [i \in 1..(Len(participants) - 1) |-> participants[i]]

\* Variant: pop(0) in place of remove(email).
ListRemove_Head(participants, email) ==
    [i \in 1..(Len(participants) - 1) |-> participants[i + 1]]

\* `participants.remove(email)` on a list that contains email: the first
\* occurrence goes, the rest keeps its order.
ListRemove(participants, email) ==
    LET k == FirstIndex(participants, email)
    IN  [i \in 1..(Len(participants) - 1) |->
            IF i < k THEN participants[i] ELSE participants[i + 1]]

\* How often email occurs in participants.
Count(participants, email) ==
    Cardinality({i \in 1..Len(participants) : participants[i] = email})

-----------------------------------------------------------------------------
(* The seed data.                                                           *)

Activity(description, schedule, max_participants, participants) ==
    [description |-> description, schedule |-> schedule,
     max_participants |-> max_participants, participants |-> participants]

SeedActivities ==
    [name \in {"Chess Club", "Programming Class", "Gym Class", "Soccer Team",
               "Basketball Club", "Swimming Team", "Math Olympiad",
               "Science Club", "Debate Team", "Art Workshop", "Drama Club",
               "Music Ensemble"} |->
        CASE name = "Chess Club" ->
                Activity("Learn strategies and compete in chess tournaments",
                         "Fridays, 3:30 PM - 5:00 PM", 12,
                         <<"michael@mergington.edu", "daniel@mergington.edu">>)
          [] name = "Programming Class" ->
                Activity("Learn programming fundamentals and build software projects",
                         "Tuesdays and Thursdays, 3:30 PM - 4:30 PM", 20,
                         <<"emma@mergington.edu", "sophia@mergington.edu">>)
          [] name = "Gym Class" ->
                Activity("Physical education and sports activities",
                         "Mondays, Wednesdays, Fridays, 2:00 PM - 3:00 PM", 30,
                         <<"john@mergington.edu", "olivia@mergington.edu">>)
          [] name = "Soccer Team" ->
                Activity("Join the school soccer team for practice and matches",
                         "Wednesdays, 4:00 PM - 6:00 PM", 18,
                         <<"alex@mergington.edu", "lucas@mergington.edu">>)
          [] name = "Basketball Club" ->
                Activity("Practice basketball skills and compete in games",
                         "Mondays and Thursdays, 3:30 PM - 5:00 PM", 15,
                         <<"mia@mergington.edu", "noah@mergington.edu">>)
          [] name = "Swimming Team" ->
                Activity("Train and compete in swimming meets",
                         "Tuesdays and Fridays, 4:00 PM - 5:30 PM", 12,
                         <<"sarah@mergington.edu", "james@mergington.edu">>)
          [] name = "Math Olympiad" ->
                Activity("Prepare for math competitions and solve challenging problems",
                         "Tuesdays, 4:00 PM - 5:30 PM", 10,
                         <<"liam@mergington.edu", "ava@mergington.edu">>)
          [] name = "Science Club" ->
                Activity("Explore scientific concepts and conduct experiments",
                         "Fridays, 2:30 PM - 4:00 PM", 16,
                         <<"ella@mergington.edu", "jack@mergington.edu">>)
          [] name = "Debate Team" ->
                Activity("Develop public speaking and argumentation skills",
                         "Mondays, 4:00 PM - 5:30 PM", 14,
                         <<"nathan@mergington.edu", "zoe@mergington.edu">>)
          [] name = "Art Workshop" ->
                Activity("Create paintings, drawings, and sculptures",
                         "Thursdays, 3:30 PM - 5:00 PM", 14,
                         <<"grace@mergington.edu", "henry@mergington.edu">>)
          [] name = "Drama Club" ->
                Activity("Act, direct, and produce school plays",
                         "Wednesdays, 3:30 PM - 5:30 PM", 20,
                         <<"chloe@mergington.edu", "ben@mergington.edu">>)
          [] OTHER ->
                Activity("Perform in a group and learn various musical instruments",
                         "Fridays, 3:30 PM - 5:00 PM", 16,
                         <<"lucy@mergington.edu", "sam@mergington.edu">>)]

-----------------------------------------------------------------------------
(* Responses.                                                               *)

\* `raise HTTPException(status_code=..., detail=...)`: FastAPI answers with
\* that status and the body {"detail": detail}.
HTTPException(status_code, detail) ==
    [status_code |-> status_code, key |-> "detail", text |-> detail]

\* A handler's returned dict {"message": message}: status 200.
Message(message) ==
    [status_code |-> 200, key |-> "message", text |-> message]

\* The body of get_activities is the registry itself; a call records it as
\* the registry it found.
Listing ==
    [status_code |-> 200, key |-> "activities", text |-> ""]

\* An exception no handler catches (list.remove's ValueError): the server
\* answers 500.
ServerError ==
    [status_code |-> 500, key |-> "", text |-> "Internal Server Error"]

Result(response, acts) == [response |-> response, activities |-> acts]

-----------------------------------------------------------------------------
(* The handlers, as functions of the registry they find: the response and   *)
(* the registry they leave behind.                                          *)

\* Variant: no check for an email that is signed up already.
SignupResult_NoDuplicateCheck(acts, activity_name, email) ==
    IF activity_name \notin DOMAIN acts
    THEN Result(HTTPException(404, "Activity not found"), acts)
    ELSE Result(Message("Signed up " \o email \o " for " \o activity_name),
                [acts EXCEPT ![activity_name].participants = ListAppend(@, email)])

\* Variant: a repeated signup is answered as a success and changes nothing.
SignupResult_DuplicateAccepted(acts, activity_name, email) ==
    IF activity_name \notin DOMAIN acts
    THEN Result(HTTPException(404, "Activity not found"), acts)
    ELSE IF ListContains(acts[activity_name].participants, email)
    THEN Result(Message("Signed up " \o email \o " for " \o activity_name), acts)
    ELSE Result(Message("Signed up " \o email \o " for " \o activity_name),
                [acts EXCEPT ![activity_name].participants = ListAppend(@, email)])

\* Variant: max_participants is enforced.
SignupResult_CapacityEnforced(acts, activity_name, email) ==
    IF activity_name \notin DOMAIN acts
    THEN Result(HTTPException(404, "Activity not found"), acts)
    ELSE IF ListContains(acts[activity_name].participants, email)
    THEN Result(HTTPException(400, "Student already signed up for this activity"),
                acts)
    ELSE IF Len(acts[activity_name].participants)
                >= acts[activity_name].max_participants
    THEN Result(HTTPException(400, "Activity is full"), acts)
    ELSE Result(Message("Signed up " \o email \o " for " \o activity_name),
                [acts EXCEPT ![activity_name].participants = ListAppend(@, email)])

\* Variant: the activities share one participants list, so an append shows in
\* all of them.
SignupResult_SharedRoster(acts, activity_name, email) ==
    IF activity_name \notin DOMAIN acts
    THEN Result(HTTPException(404, "Activity not found"), acts)
    ELSE IF ListContains(acts[activity_name].participants, email)
    THEN Result(HTTPException(400, "Student already signed up for this activity"),
                acts)
    ELSE Result(Message("Signed up " \o email \o " for " \o activity_name),
                [a \in DOMAIN acts |->
                    [acts[a] EXCEPT !.participants = ListAppend(@, email)]])

\* signup_for_activity
SignupResult(acts, activity_name, email) ==
    IF activity_name \notin DOMAIN acts
    THEN Result(HTTPException(404, "Activity not found"), acts)
    ELSE IF ListContains(acts[activity_name].participants, email)
    THEN Result(HTTPException(400, "Student already signed up for this activity"),
                acts)
    ELSE Result(Message("Signed up " \o email \o " for " \o activity_name),
                [acts EXCEPT ![activity_name].participants = ListAppend(@, email)])

\* Variant: an unknown activity is looked up with a default and answered as
\* "not registered".
UnregisterResult_MissingIsConflict(acts, activity_name, email) ==
    IF activity_name \notin DOMAIN acts
    THEN Result(HTTPException(400, "Student is not registered for this activity"),
                acts)
    ELSE IF ~ListContains(acts[activity_name].participants, email)
    THEN Result(HTTPException(400, "Student is not registered for this activity"),
                acts)
    ELSE Result(Message("Unregistered " \o email \o " from " \o activity_name),
                [acts EXCEPT ![activity_name].participants = ListRemove(@, email)])

\* Variant: an email that is not registered is answered 404.
UnregisterResult_NotRegisteredIs404(acts, activity_name, email) ==
    IF activity_name \notin DOMAIN acts
    THEN Result(HTTPException(404, "Activity not found"), acts)
    ELSE IF ~ListContains(acts[activity_name].participants, email)
    THEN Result(HTTPException(404, "Student is not registered for this activity"),
                acts)
    ELSE Result(Message("Unregistered " \o email \o " from " \o activity_name),
                [acts EXCEPT ![activity_name].participants = ListRemove(@, email)])

\* unregister_from_activity
UnregisterResult(acts, activity_name, email) ==
    IF activity_name \notin DOMAIN acts
    THEN Result(HTTPException(404, "Activity not found"), acts)
    ELSE IF ~ListContains(acts[activity_name].participants, email)
    THEN Result(HTTPException(400, "Student is not registered for this activity"),
                acts)
    ELSE Result(Message("Unregistered " \o email \o " from " \o activity_name),
                [acts EXCEPT ![activity_name].participants = ListRemove(@, email)])

-----------------------------------------------------------------------------
(* Spec and SpecFill: sequential requests, each handler one atomic step.    *)

Call(op, activity_name, email, response, before) ==
    [op |-> op, activity_name |-> activity_name, email |-> email,
     response |-> response, before |-> before]

NoCall == Call("none", "", "", Message(""), SeedActivities)

Request(op, activity_name, email) ==
    [op |-> op, activity_name |-> activity_name, email |-> email]

Threads == {1, 2}

Init ==
    /\ activities = SeedActivities
    /\ last = NoCall
    /\ prev = NoCall
    /\ pc = [t \in Threads |-> "idle"]
    /\ req = [t \in Threads |-> Request("none", "", "")]
    /\ resp = [t \in Threads |-> Message("")]

\* GET /activities
get_activities ==
    /\ activities' = activities
    /\ last' = Call("list", "", "", Listing, activities)
    /\ prev' = last
    /\ UNCHANGED <<pc, req, resp>>

\* POST /activities/{activity_name}/signup?email=...
signup_for_activity(activity_name, email) ==
    LET r == SignupResult(activities, activity_name, email)
    IN  /\ activities' = r.activities
        /\ last' = Call("signup", activity_name, email, r.response, activities)
        /\ prev' = last
        /\ UNCHANGED <<pc, req, resp>>

\* DELETE /activities/{activity_name}/unregister?email=...
unregister_from_activity(activity_name, email) ==
    LET r == UnregisterResult(activities, activity_name, email)
    IN  /\ activities' = r.activities
        /\ last' = Call("unregister", activity_name, email, r.response, activities)
        /\ prev' = last
        /\ UNCHANGED <<pc, req, resp>>

\* The <<activity_name, email>> pairs the clients of Spec send: any email of
\* FreeEmails on FreeActivity, in any order, and one email on MissingActivity.
Requests ==
    {<<FreeActivity, e>> : e \in FreeEmails}
        \cup {<<MissingActivity, NewEmailPool[1]>>}

Next ==
    \/ get_activities
    \/ \E r \in Requests : signup_for_activity(r[1], r[2])
    \/ \E r \in Requests : unregister_from_activity(r[1], r[2])

Spec == Init /\ [][Next]_vars

\* The indices of the emails of NewEmailPool[1..NumFill] that are not in the
\* roster of FillActivity.
FillAbsent ==
    {i \in 1..NumFill :
        ~ListContains(activities[FillActivity].participants, NewEmailPool[i])}

\* The pairs the clients of SpecFill send.  They fill FillActivity as a stack:
\* the first email of the pool that is not yet in its roster, or the one signed
\* up last.  The last email of the fill also goes to FreeActivity.
FillRequests ==
    LET roster == activities[FillActivity].participants
        top    == IF Len(roster) > 0 /\ roster[Len(roster)] \in
                        {NewEmailPool[i] : i \in 1..NumFill}
                  THEN {roster[Len(roster)]} ELSE {}
        next   == IF FillAbsent = {} THEN {}
                  ELSE {NewEmailPool[CHOOSE i \in FillAbsent :
                                        \A j \in FillAbsent : i <= j]}
    IN  {<<FillActivity, e>> : e \in top \cup next}
            \cup {<<FreeActivity, NewEmailPool[NumFill]>>,
                  <<MissingActivity, NewEmailPool[1]>>}

NextFill ==
    \/ get_activities
    \/ \E r \in FillRequests : signup_for_activity(r[1], r[2])
    \/ \E r \in FillRequests : unregister_from_activity(r[1], r[2])

SpecFill == Init /\ [][NextFill]_vars

-----------------------------------------------------------------------------
(* SpecConc: two requests on two worker threads.  FastAPI runs a `def`      *)
(* handler on a thread of its pool; under the interpreter lock one list or  *)
(* dict operation is atomic and a thread switch may fall between any two.   *)
(* Each step below is one such operation of the handler the thread runs.    *)

\* The emails the two concurrent requests carry.
ConcEmails == {"michael@mergington.edu", NewEmailPool[1]}

ConcRequests ==
    {Request(op, a, e) : op \in {"signup", "unregister"},
                         a \in {FreeActivity, MissingActivity},
                         e \in ConcEmails}

\* The server hands request r to the idle thread t.
Receive(t, r) ==
    /\ pc[t] = "idle"
    /\ req' = [req EXCEPT ![t] = r]
    /\ pc' = [pc EXCEPT ![t] = "check_activity"]
    /\ UNCHANGED <<activities, last, prev, resp>>

\* `if activity_name not in activities: raise HTTPException(404, ...)`
\* and `activity = activities[activity_name]` (a reference, no copy).
check_activity(t) ==
    /\ pc[t] = "check_activity"
    /\ IF req[t].activity_name \notin DOMAIN activities
       THEN /\ resp' = [resp EXCEPT ![t] = HTTPException(404, "Activity not found")]
            /\ pc' = [pc EXCEPT ![t] = "done"]
       ELSE /\ resp' = resp
            /\ pc' = [pc EXCEPT ![t] = "check_participant"]
    /\ UNCHANGED <<activities, last, prev, req>>

\* signup: `if email in activity["participants"]: raise HTTPException(400, ...)`
signup_check_participant(t) ==
    /\ pc[t] = "check_participant"
    /\ req[t].op = "signup"
    /\ IF ListContains(activities[req[t].activity_name].participants, req[t].email)
       THEN /\ resp' = [resp EXCEPT ![t] =
                   HTTPException(400, "Student already signed up for this activity")]
            /\ pc' = [pc EXCEPT ![t] = "done"]
       ELSE /\ resp' = resp
            /\ pc' = [pc EXCEPT ![t] = "mutate"]
    /\ UNCHANGED <<activities, last, prev, req>>

\* Variant: the append looks again and skips an email that is there by now.
signup_append_IfAbsent(t) ==
    /\ pc[t] = "mutate"
    /\ req[t].op = "signup"
    /\ activities' =
            IF ListContains(activities[req[t].activity_name].participants,
                            req[t].email)
            THEN activities
            ELSE [activities EXCEPT ![req[t].activity_name].participants =
                      ListAppend(@, req[t].email)]
    /\ resp' = [resp EXCEPT ![t] =
                   Message("Signed up " \o req[t].email \o " for "
                               \o req[t].activity_name)]
    /\ pc' = [pc EXCEPT ![t] = "done"]
    /\ UNCHANGED <<last, prev, req>>

\* signup: `activity["participants"].append(email)` and the return.
signup_append(t) ==
    /\ pc[t] = "mutate"
    /\ req[t].op = "signup"
    /\ activities' = [activities EXCEPT ![req[t].activity_name].participants =
                          ListAppend(@, req[t].email)]
    /\ resp' = [resp EXCEPT ![t] =
                   Message("Signed up " \o req[t].email \o " for "
                               \o req[t].activity_name)]
    /\ pc' = [pc EXCEPT ![t] = "done"]
    /\ UNCHANGED <<last, prev, req>>

\* unregister: `if email not in activity["participants"]: raise HTTPException(400, ...)`
unregister_check_participant(t) ==
    /\ pc[t] = "check_participant"
    /\ req[t].op = "unregister"
    /\ IF ~ListContains(activities[req[t].activity_name].participants, req[t].email)
       THEN /\ resp' = [resp EXCEPT ![t] =
                   HTTPException(400, "Student is not registered for this activity")]
            /\ pc' = [pc EXCEPT ![t] = "done"]
       ELSE /\ resp' = resp
            /\ pc' = [pc EXCEPT ![t] = "mutate"]
    /\ UNCHANGED <<activities, last, prev, req>>

\* unregister: `activity["participants"].remove(email)` and the return;
\* list.remove raises ValueError when the email is gone by now.
unregister_remove(t) ==
    /\ pc[t] = "mutate"
    /\ req[t].op = "unregister"
    /\ IF ListContains(activities[req[t].activity_name].participants, req[t].email)
       THEN /\ activities' = [activities EXCEPT ![req[t].activity_name].participants =
                                  ListRemove(@, req[t].email)]
            /\ resp' = [resp EXCEPT ![t] =
                           Message("Unregistered " \o req[t].email \o " from "
                                       \o req[t].activity_name)]
       ELSE /\ activities' = activities
            /\ resp' = [resp EXCEPT ![t] = ServerError]
    /\ pc' = [pc EXCEPT ![t] = "done"]
    /\ UNCHANGED <<last, prev, req>>

NextConc ==
    \/ \E t \in Threads, r \in ConcRequests : Receive(t, r)
    \/ \E t \in Threads : check_activity(t)
    \/ \E t \in Threads : signup_check_participant(t)
    \/ \E t \in Threads : signup_append(t)
    \/ \E t \in Threads : unregister_check_participant(t)
    \/ \E t \in Threads : unregister_remove(t)

SpecConc == Init /\ [][NextConc]_vars

-----------------------------------------------------------------------------
(* The properties.  In Spec and SpecFill, last and prev are the last two    *)
(* calls; last.before is the registry the last call found, prev.before the  *)
(* one the call before it found.                                            *)

Roster(acts, activity_name) == acts[activity_name].participants

NoDuplicates(participants) ==
    \A i, j \in 1..Len(participants) :
        participants[i] = participants[j] => i = j

Mutating(call) == call.op \in {"signup", "unregister"}

Existing(call) == call.activity_name \in DOMAIN call.before

\* The email of the call is in the roster the call found.
Enrolled(call) ==
    ListContains(Roster(call.before, call.activity_name), call.email)

SameRequest(c, d) ==
    c.activity_name = d.activity_name /\ c.email = d.email

\* C1: after any sequence of sequential list, signup and unregister calls, no
\* roster of the registry holds an email more than once.
C1_UniqueParticipants ==
    \A a \in DOMAIN activities : NoDuplicates(Roster(activities, a))

\* C1 witness: a repeated signup was refused on a roster that has grown.
C1_Witness ==
    /\ last.op = "signup"
    /\ last.response.status_code = 400
    /\ Len(Roster(activities, FreeActivity)) > 2
    /\ prev.op = "unregister"
    /\ prev.response.status_code = 200

\* C2: a signup or unregister that names an activity which is no key of the
\* registry is answered 404 "Activity not found" and leaves the registry (keys
\* and rosters) as it found it.
C2_UnknownActivity ==
    (Mutating(last) /\ ~Existing(last)) =>
        /\ last.response = HTTPException(404, "Activity not found")
        /\ activities = last.before

\* C2 witness: a signup and then an unregister on an unknown activity, in a
\* registry that is no longer the seed.
C2_Witness ==
    /\ prev.op = "signup" /\ ~Existing(prev)
    /\ prev.response.status_code = 404
    /\ last.op = "unregister" /\ ~Existing(last)
    /\ last.response.status_code = 404
    /\ activities # SeedActivities

\* C3: a signup of an email that is not in the roster of an existing activity
\* succeeds; the new roster is the old one with the email appended: one longer,
\* every old member at its old position, the email last and there once.
C3_SignupAppends ==
    (last.op = "signup" /\ Existing(last) /\ ~Enrolled(last)) =>
        LET old == Roster(last.before, last.activity_name)
            new == Roster(activities, last.activity_name)
        IN  /\ last.response.status_code = 200
            /\ Len(new) = Len(old) + 1
            /\ \A i \in 1..Len(old) : new[i] = old[i]
            /\ new[Len(new)] = last.email
            /\ Count(new, last.email) = 1

\* C3 witness: a successful signup to a roster whose order is not the seed's.
C3_Witness ==
    /\ last.op = "signup"
    /\ last.response.status_code = 200
    /\ Len(Roster(last.before, FreeActivity)) >= 2
    /\ Roster(last.before, FreeActivity)[1] # "michael@mergington.edu"
    /\ last.activity_name = FreeActivity

\* C4: signup(a, e) with e not in the roster of the existing a, followed at once
\* by signup(a, e): the first succeeds, the second is answered 400 "Student
\* already signed up for this activity" and changes nothing, and the roster
\* holds e once.
C4_SecondSignupConflicts ==
    (/\ prev.op = "signup" /\ last.op = "signup"
     /\ SameRequest(prev, last)
     /\ Existing(prev) /\ ~Enrolled(prev)) =>
        /\ prev.response.status_code = 200
        /\ last.response =
               HTTPException(400, "Student already signed up for this activity")
        /\ activities = last.before
        /\ Count(Roster(activities, last.activity_name), last.email) = 1

\* C4 witness: the two signups happened, the second was refused.
C4_Witness ==
    /\ prev.op = "signup" /\ last.op = "signup"
    /\ SameRequest(prev, last)
    /\ Existing(prev) /\ ~Enrolled(prev)
    /\ last.response.status_code = 400

\* C5: an unregister of an email that is not in the roster of an existing
\* activity is answered 400 "Student is not registered for this activity" and
\* changes nothing.
C5_UnregisterAbsentConflicts ==
    (last.op = "unregister" /\ Existing(last) /\ ~Enrolled(last)) =>
        /\ last.response =
               HTTPException(400, "Student is not registered for this activity")
        /\ activities = last.before

\* C5 witness: a seed member who has left is unregistered again.
C5_Witness ==
    /\ last.op = "unregister" /\ Existing(last) /\ ~Enrolled(last)
    /\ last.email = "daniel@mergington.edu"
    /\ last.response.status_code = 400

\* C6: an unregister of an email that is in the roster of an existing activity
\* succeeds; the new roster is the old one without that occurrence: one
\* shorter, the email gone, the others in their old order.
C6_UnregisterRemoves ==
    (last.op = "unregister" /\ Existing(last) /\ Enrolled(last)) =>
        LET old == Roster(last.before, last.activity_name)
            new == Roster(activities, last.activity_name)
        IN  /\ last.response.status_code = 200
            /\ Len(new) = Len(old) - 1
            /\ ~ListContains(new, last.email)
            /\ \E k \in 1..Len(old) :
                   /\ old[k] = last.email
                   /\ new = SubSeq(old, 1, k - 1) \o SubSeq(old, k + 1, Len(old))

\* C6 witness: a seed member is removed from the middle of a roster.
C6_Witness ==
    /\ last.op = "unregister"
    /\ last.response.status_code = 200
    /\ last.email = "daniel@mergington.edu"
    /\ LET old == Roster(last.before, last.activity_name)
       IN  \E k \in 2..(Len(old) - 1) : old[k] = last.email

\* C7: signup(a, e) with e not in the roster of the existing a, followed at once
\* by unregister(a, e): both succeed and the registry is again the one the
\* signup found, the roster of a with the same members in the same order.
C7_RoundTrip ==
    (/\ prev.op = "signup" /\ last.op = "unregister"
     /\ SameRequest(prev, last)
     /\ Existing(prev) /\ ~Enrolled(prev)) =>
        /\ prev.response.status_code = 200
        /\ last.response.status_code = 200
        /\ Roster(activities, last.activity_name)
               = Roster(prev.before, prev.activity_name)
        /\ activities = prev.before

\* C7 witness: the round trip happened on a roster that is not the seed's.
C7_Witness ==
    /\ prev.op = "signup" /\ last.op = "unregister"
    /\ SameRequest(prev, last)
    /\ prev.response.status_code = 200
    /\ last.response.status_code = 200
    /\ prev.before # SeedActivities

\* C8: the answer of a signup is decided by two facts only, whether the
\* activity is a key and whether the email is in its own roster: 404 for no
\* key, 400 for an email that is there, success and the email in the roster
\* otherwise, whatever the size of the roster against max_participants and
\* whatever the other rosters hold.
C8_SignupIgnoresCapacity ==
    (last.op = "signup") =>
        /\ ~Existing(last) => last.response.status_code = 404
        /\ (Existing(last) /\ Enrolled(last)) => last.response.status_code = 400
        /\ (Existing(last) /\ ~Enrolled(last)) =>
               /\ last.response.status_code = 200
               /\ ListContains(Roster(activities, last.activity_name), last.email)

\* C8 witness: a signup succeeded on a roster that was full already, for an
\* email that is in the roster of another activity, and the roster now holds
\* more than max_participants.
C8_Witness ==
    /\ last.op = "signup"
    /\ last.response.status_code = 200
    /\ last.activity_name = FillActivity
    /\ Len(Roster(last.before, FillActivity))
           >= last.before[FillActivity].max_participants
    /\ Len(Roster(activities, FillActivity))
           > activities[FillActivity].max_participants
    /\ ListContains(Roster(last.before, FreeActivity), last.email)

\* C9: the keys of the registry and every description, schedule and
\* max_participants stay those of the seed; a list call changes nothing; a
\* signup or unregister, successful or not, leaves every activity but the one
\* it names as it was.
C9_Frame ==
    /\ DOMAIN activities = DOMAIN SeedActivities
    /\ \A a \in DOMAIN activities :
           /\ activities[a].description = SeedActivities[a].description
           /\ activities[a].schedule = SeedActivities[a].schedule
           /\ activities[a].max_participants = SeedActivities[a].max_participants
    /\ last.op = "list" => activities = last.before
    /\ Mutating(last) =>
           \A b \in DOMAIN last.before \ {last.activity_name} :
               activities[b] = last.before[b]

\* C9 witness: a successful signup on one activity while the roster of
\* another is not the seed's, after a list call.
C9_Witness ==
    /\ prev.op = "list"
    /\ last.op = "signup"
    /\ last.response.status_code = 200
    /\ last.activity_name = FreeActivity
    /\ Roster(activities, FillActivity) # Roster(SeedActivities, FillActivity)

\* Threads t and u serve the same signup, for an existing activity and an
\* email that was not in its roster when they arrived.
RacingSignups(t, u) ==
    /\ t # u
    /\ req[t] = req[u]
    /\ req[t].op = "signup"
    /\ req[t].activity_name \in DOMAIN activities
    /\ ~ListContains(Roster(SeedActivities, req[t].activity_name), req[t].email)

\* C10: two concurrent signups of one email to one activity are not kept
\* apart.  While both are past the duplicate check and before the append the
\* roster does not hold the email; a thread past the check is not held back by
\* the success of the other; and when both have returned success the roster
\* holds the email twice.
C10_RaceDuplicates ==
    \A t, u \in Threads :
        RacingSignups(t, u) =>
            LET n == Count(Roster(activities, req[t].activity_name), req[t].email)
            IN  /\ (pc[t] = "mutate" /\ pc[u] = "mutate") => n = 0
                /\ (pc[t] = "mutate" /\ pc[u] = "done"
                        /\ resp[u].status_code = 200) => n = 1
                /\ (pc[t] = "done" /\ pc[u] = "done"
                        /\ resp[t].status_code = 200
                        /\ resp[u].status_code = 200) => n = 2

\* C10 witness: both signups returned success and the roster holds the email
\* twice.
C10_Witness ==
    \E t, u \in Threads :
        /\ RacingSignups(t, u)
        /\ pc[t] = "done" /\ pc[u] = "done"
        /\ resp[t].status_code = 200 /\ resp[u].status_code = 200
        /\ Count(Roster(activities, req[t].activity_name), req[t].email) = 2
        /\ ~NoDuplicates(Roster(activities, req[t].activity_name))

=============================================================================
